---------------------------- MODULE Spec2Model ----------------------------
(***************************************************************************)
(* Model of src/index.ts: parsePojoString (normalize, tokenize,            *)
(* parseValue, parseList, parseItem, parseObject) and diffObjects.         *)
(*                                                                         *)
(* A JavaScript string is a sequence of code units, each written as a      *)
(* one-character string; a code unit that cannot stand in a string of      *)
(* this language is written as its escape, "\\u2028" for U+2028.           *)
(* A JavaScript value is a record tagged by t:                             *)
(*   [t |-> "null"], [t |-> "undefined"], [t |-> "bool", b |-> ...],        *)
(*   [t |-> "num", kind |-> "finite", sign |-> ..., bits |-> ...,           *)
(*    exp |-> ...]  (the double sign * bits * 2^exp, bits a binary          *)
(*   numeral that starts and ends with 1, empty for +0 and -0),            *)
(*   [t |-> "num", kind |-> "inf", sign |-> ...], [t |-> "num",             *)
(*   kind |-> "nan"], [t |-> "str", s |-> ...],                             *)
(*   [t |-> "list", ref |-> ..., elems |-> ...]  (ref: its identity),       *)
(*   [t |-> "obj", ents |-> << [k |-> key, v |-> value], ... >>]            *)
(*   (own enumerable properties in insertion order),                       *)
(*   [t |-> "function", name |-> ...]  (a method of Object.prototype).     *)
(***************************************************************************)
EXTENDS Integers, Sequences, FiniteSets, TLC

VARIABLES
    pc,       \* position of the running operation
    scope,    \* tokenize: its argument str
    pos,      \* tokenize: number of characters consumed (the loop index i)
    buf,      \* tokenize: buf
    depth,    \* tokenize: depth
    tokens,   \* tokenize: tokens
    input1,   \* first text handed to parsePojoString
    input2,   \* second text handed to parsePojoString
    obj1,     \* first argument of diffObjects / first parse result
    obj2,     \* second argument of diffObjects / second parse result
    diffs     \* result of diffObjects(obj1, obj2)

vars == <<pc, scope, pos, buf, depth, tokens, input1, input2, obj1, obj2, diffs>>

None == [t |-> "none"]

-----------------------------------------------------------------------------
(* Strings *)

\* Sequences over S of length at most n.
SeqsUpTo(S, n) == UNION {[1..k -> S] : k \in 0..n}

RECURSIVE Join(_, _)
\* Array.prototype.join
Join(ss, sep) ==
    IF ss = <<>> THEN <<>>
    ELSE IF Len(ss) = 1 THEN ss[1]
    ELSE ss[1] \o sep \o Join(Tail(ss), sep)

\* String.prototype.includes, for a one-character needle
Includes(s, ch) == \E i \in 1..Len(s) : s[i] = ch

\* String.prototype.indexOf for a one-character needle, 0-based, -1 when absent
IndexOf(s, ch) ==
    IF Includes(s, ch)
    THEN (CHOOSE i \in 1..Len(s) : s[i] = ch /\ \A j \in 1..(i - 1) : s[j] # ch) - 1
    ELSE -1

\* String.prototype.startsWith / endsWith for a one-character argument
StartsWith(s, ch) == Len(s) > 0 /\ s[1] = ch
EndsWith(s, ch) == Len(s) > 0 /\ s[Len(s)] = ch

\* String.prototype.slice(start, end) with 0-based start >= 0 and an end that
\* may be negative (counted from the end of the string).
Slice(s, start, end) ==
    LET e == IF end < 0 THEN (IF Len(s) + end < 0 THEN 0 ELSE Len(s) + end)
             ELSE (IF end > Len(s) THEN Len(s) ELSE end)
        b == IF start > Len(s) THEN Len(s) ELSE start
    IN  IF b >= e THEN <<>> ELSE SubSeq(s, b + 1, e)

\* WhiteSpace of ECMAScript: TAB, VT, FF, SP, NBSP, U+1680, ZWNBSP and the
\* other space separators U+2000..U+200A, U+202F, U+205F, U+3000.
WhiteSpaceChars ==
    { "\t", "", "\f", " ", " ", " ", "﻿",
      "\\u2000", "\\u2001", "\\u2002", "\\u2003", "\\u2004", "\\u2005",
      "\\u2006", "\\u2007", "\\u2008", "\\u2009", "\\u200a",
      "\\u202f", "\\u205f", "\\u3000" }

\* LineTerminator of ECMAScript: LF, CR, LS, PS.
LineTerminators == {"\n", "\r", "\\u2028", "\\u2029"}

\* The characters String.prototype.trim and Number() strip.
WhiteSpace == WhiteSpaceChars \cup LineTerminators

RECURSIVE TrimStart(_)
TrimStart(s) ==
    IF s # <<>> /\ Head(s) \in WhiteSpace THEN TrimStart(Tail(s)) ELSE s

RECURSIVE TrimEnd(_)
TrimEnd(s) ==
    IF s # <<>> /\ s[Len(s)] \in WhiteSpace
    THEN TrimEnd(SubSeq(s, 1, Len(s) - 1)) ELSE s

\* String.prototype.trim
Trim(s) == TrimEnd(TrimStart(s))

\* String.prototype.split('=')[0]: the text before the first '=' (all of it
\* when there is none).
BeforeFirstEq(s) ==
    IF Includes(s, "=") THEN SubSeq(s, 1, IndexOf(s, "=")) ELSE s

\* const [k, ...rest] = item.split('='); rest.join('='): the text after the
\* first '='.
AfterFirstEq(s) ==
    IF Includes(s, "=") THEN SubSeq(s, IndexOf(s, "=") + 2, Len(s)) ELSE <<>>

-----------------------------------------------------------------------------
(* tokenize *)

\* The state of the loop before its first iteration.
TokStart == [tokens |-> <<>>, buf |-> <<>>, depth |-> 0]

\* A faulty variant of TokStep that splits at every comma.
TokStepSplitAnywhere(st, ch) ==
    LET d1 == IF ch = "[" THEN st.depth + 1 ELSE st.depth
        d2 == IF ch = "]" THEN d1 - 1 ELSE d1
    IN  IF ch = ","
        THEN [tokens |-> Append(st.tokens, Trim(st.buf)), buf |-> <<>>, depth |-> d2]
        ELSE [tokens |-> st.tokens, buf |-> Append(st.buf, ch), depth |-> d2]

\* One iteration of the loop on character ch.
TokStep(st, ch) ==
    LET d1 == IF ch = "[" THEN st.depth + 1 ELSE st.depth
        d2 == IF ch = "]" THEN d1 - 1 ELSE d1
    IN  IF ch = "," /\ d2 = 0
        THEN [tokens |-> Append(st.tokens, Trim(st.buf)), buf |-> <<>>, depth |-> d2]
        ELSE [tokens |-> st.tokens, buf |-> Append(st.buf, ch), depth |-> d2]

\* After the loop: if (buf) tokens.push(buf.trim())
TokEnd(st) ==
    IF st.buf # <<>> THEN Append(st.tokens, Trim(st.buf)) ELSE st.tokens

RECURSIVE TokLoop(_, _, _, _)
\* The loop over str[lo..hi] from state st: TokStep on each character, left
\* to right.  The range is halved, and the left half evaluated before the
\* right half starts, to keep the evaluation shallow.
TokLoop(str, lo, hi, st) ==
    IF lo > hi THEN st
    ELSE IF lo = hi THEN TokStep(st, str[lo])
    ELSE LET left == TokLoop(str, lo, (lo + hi) \div 2, st)
         IN  IF left.depth \in Int
             THEN TokLoop(str, (lo + hi) \div 2 + 1, hi, left)
             ELSE left

tokenize(str) == TokEnd(TokLoop(str, 1, Len(str), TokStart))

-----------------------------------------------------------------------------
(* Values *)

Null == [t |-> "null"]
Undefined == [t |-> "undefined"]
Bool(b) == [t |-> "bool", b |-> b]
Str(s) == [t |-> "str", s |-> s]
NaN == [t |-> "num", kind |-> "nan"]
Infinity(sign) == [t |-> "num", kind |-> "inf", sign |-> sign]

\* Object.prototype itself: an object with no enumerable own property.
ObjectPrototype == [t |-> "objproto"]

\* A plain object whose [[Prototype]] is proto.
ObjWithProto(ents, proto) == [t |-> "obj", ents |-> ents, proto |-> proto]

\* An object literal { ... }: its [[Prototype]] is Object.prototype.
Obj(ents) == ObjWithProto(ents, ObjectPrototype)

\* An array; ref is its identity (the allocation it lives in).
List(ref, elems) == [t |-> "list", ref |-> ref, elems |-> elems]

\* The property names Object.prototype defines.
ObjectPrototypeKeys ==
    { <<"c", "o", "n", "s", "t", "r", "u", "c", "t", "o", "r">>,
      <<"t", "o", "S", "t", "r", "i", "n", "g">>,
      <<"t", "o", "L", "o", "c", "a", "l", "e", "S", "t", "r", "i", "n", "g">>,
      <<"v", "a", "l", "u", "e", "O", "f">>,
      <<"h", "a", "s", "O", "w", "n", "P", "r", "o", "p", "e", "r", "t", "y">>,
      <<"i", "s", "P", "r", "o", "t", "o", "t", "y", "p", "e", "O", "f">>,
      <<"p", "r", "o", "p", "e", "r", "t", "y", "I", "s", "E", "n", "u", "m", "e", "r", "a", "b", "l", "e">>,
      <<"_", "_", "d", "e", "f", "i", "n", "e", "G", "e", "t", "t", "e", "r", "_", "_">>,
      <<"_", "_", "d", "e", "f", "i", "n", "e", "S", "e", "t", "t", "e", "r", "_", "_">>,
      <<"_", "_", "l", "o", "o", "k", "u", "p", "G", "e", "t", "t", "e", "r", "_", "_">>,
      <<"_", "_", "l", "o", "o", "k", "u", "p", "S", "e", "t", "t", "e", "r", "_", "_">>,
      <<"_", "_", "p", "r", "o", "t", "o", "_", "_">> }

\* The one accessor among them.
ProtoKey == <<"_", "_", "p", "r", "o", "t", "o", "_", "_">>

\* typeof v === 'object'
TypeofObject(v) == v.t \in {"null", "obj", "objproto", "list"}

\* Array.isArray(v)
IsArray(v) == v.t = "list"

\* ToBoolean(v), the test `val1 && val2` makes
Truthy(v) ==
    CASE v.t \in {"null", "undefined"} -> FALSE
      [] v.t = "bool" -> v.b
      [] v.t = "num" -> ~(v.kind = "nan" \/ (v.kind = "finite" /\ v.bits = <<>>))
      [] v.t = "str" -> v.s # <<>>
      [] OTHER -> TRUE

\* The own enumerable entries of an object.
Ents(o) == IF o.t = "obj" THEN o.ents ELSE <<>>

\* The set of own enumerable property names.
OwnKeys(o) == {Ents(o)[i].k : i \in 1..Len(Ents(o))}

\* The own property named k (k \in OwnKeys(o)).
OwnValue(o, k) ==
    Ents(o)[CHOOSE i \in 1..Len(Ents(o)) : Ents(o)[i].k = k].v

-----------------------------------------------------------------------------
(* Number(val): StringToNumber *)

Digits == {"0", "1", "2", "3", "4", "5", "6", "7", "8", "9"}

OctalDigits == {"0", "1", "2", "3", "4", "5", "6", "7"}

BinaryDigits == {"0", "1"}

HexDigits == Digits \cup {"a", "b", "c", "d", "e", "f", "A", "B", "C", "D", "E", "F"}

DigitVal(ch) ==
    CASE ch = "0" -> 0 [] ch = "1" -> 1 [] ch = "2" -> 2 [] ch = "3" -> 3
      [] ch = "4" -> 4 [] ch = "5" -> 5 [] ch = "6" -> 6 [] ch = "7" -> 7
      [] ch = "8" -> 8 [] ch = "9" -> 9
      [] ch \in {"a", "A"} -> 10 [] ch \in {"b", "B"} -> 11
      [] ch \in {"c", "C"} -> 12 [] ch \in {"d", "D"} -> 13
      [] ch \in {"e", "E"} -> 14 [] ch \in {"f", "F"} -> 15

AllIn(s, S) == s # <<>> /\ \A i \in 1..Len(s) : s[i] \in S

\* The function f on 1..n as a tuple, its elements computed once.
Tuple(f) == f \o <<>>

\* The digits of a digit string as numbers.
DigitVals(s) == Tuple([i \in 1..Len(s) |-> DigitVal(s[i])])

Zeros(n) == Tuple([i \in 1..n |-> 0])

\* The number of zeros a sequence of digits starts with, and ends with.
LeadingZeros(ds) ==
    IF \A i \in 1..Len(ds) : ds[i] = 0 THEN Len(ds)
    ELSE (CHOOSE i \in 1..Len(ds) : ds[i] # 0 /\ \A j \in 1..(i - 1) : ds[j] = 0) - 1

TrailingZeros(ds) ==
    IF \A i \in 1..Len(ds) : ds[i] = 0 THEN Len(ds)
    ELSE Len(ds) - (CHOOSE i \in 1..Len(ds) :
                        ds[i] # 0 /\ \A j \in (i + 1)..Len(ds) : ds[j] = 0)

DropLeadingZeros(ds) == SubSeq(ds, LeadingZeros(ds) + 1, Len(ds))

DropTrailingZeros(ds) == SubSeq(ds, 1, Len(ds) - TrailingZeros(ds))

\* A double holds 53 significant bits; its lowest bit weighs at least
\* 2^-1074 and its highest at most 2^1023.
SignificandBits == 53
MinBinaryExponent == -1074
MaxBinaryExponent == 1023

\* +0 and -0.
Zero(sign) == [t |-> "num", kind |-> "finite", sign |-> sign, bits |-> <<>>, exp |-> 0]

\* The double sign * bits * 2^exp (bits: a binary numeral starting with 1, of
\* at most 53 significant bits) in its one normal form, or the infinity it
\* overflows to.
Finite(sign, bits, exp) ==
    LET tz == TrailingZeros(bits)
    IN  IF tz = Len(bits) THEN Zero(sign)
        ELSE IF exp + Len(bits) - 1 > MaxBinaryExponent THEN Infinity(sign)
        ELSE [t |-> "num", kind |-> "finite", sign |-> sign,
              bits |-> SubSeq(bits, 1, Len(bits) - tz), exp |-> exp + tz]

IsZero(n) == n.kind = "finite" /\ n.bits = <<>>

\* A binary numeral plus one.
Increment(bits) ==
    IF \A i \in 1..Len(bits) : bits[i] = 1 THEN <<1>> \o Zeros(Len(bits))
    ELSE LET j == CHOOSE i \in 1..Len(bits) :
                      bits[i] = 0 /\ \A k \in (i + 1)..Len(bits) : bits[k] = 1
         IN  Tuple([i \in 1..Len(bits) |->
                       IF i < j THEN bits[i] ELSE IF i = j THEN 1 ELSE 0])

\* The double nearest to sign * (ibits . fbits + a rest below the last bit,
\* nonzero iff sticky), ties to the even significand.
RoundToDouble(sign, ibits, fbits, sticky) ==
    LET all == ibits \o fbits
        bit(i) == IF i >= 1 /\ i <= Len(all) THEN all[i] ELSE 0
        p == LeadingZeros(all) + 1
        top == Len(ibits) - p
        low == IF top - (SignificandBits - 1) < MinBinaryExponent
               THEN MinBinaryExponent ELSE top - (SignificandBits - 1)
        iLow == Len(ibits) - low
        kept == Tuple([i \in 1..(iLow - p + 1) |-> bit(p + i - 1)])
        rest == sticky \/ \E i \in (iLow + 2)..Len(all) : all[i] = 1
        up == bit(iLow + 1) = 1 /\ (rest \/ (iLow >= p /\ bit(iLow) = 1))
    IN  IF p > Len(all) THEN Zero(sign)
        ELSE Finite(sign, IF up THEN Increment(kept) ELSE kept, low)

\* A decimal numeral divided by two (the remainder is the parity of its last
\* digit).
Halve(ds) ==
    Tuple([i \in 1..Len(ds) |->
              (ds[i] + (IF i > 1 THEN 10 * (ds[i - 1] % 2) ELSE 0)) \div 2])

\* One division by two of the numeral st.ds; its remainder is the next bit.
IntStep(st) ==
    IF st.ds = <<>> THEN st
    ELSE LET q == Halve(st.ds)
         IN  [ds |-> IF q[1] = 0 THEN Tail(q) ELSE q,
              bits |-> <<st.ds[Len(st.ds)] % 2>> \o st.bits]

RECURSIVE IntLoop(_, _)
\* n times IntStep.  The count is halved, and the first half evaluated before
\* the second starts, to keep the evaluation shallow.
IntLoop(n, st) ==
    IF n <= 0 THEN st
    ELSE IF n = 1 THEN IntStep(st)
    ELSE LET left == IntLoop(n \div 2, st)
         IN  IF Len(left.bits) >= 0 THEN IntLoop(n - n \div 2, left) ELSE left

\* The binary numeral of a decimal numeral without leading zeros (a numeral
\* of n digits has fewer than 4 * n bits).
IntegerBits(ds) == IntLoop(4 * Len(ds), [ds |-> ds, bits |-> <<>>]).bits

\* The digits of a decimal fraction 0.fs times two, less the integer part.
DoubleFraction(fs) ==
    Tuple([i \in 1..Len(fs) |->
              ((2 * fs[i]) % 10) + (IF i < Len(fs) /\ fs[i + 1] >= 5 THEN 1 ELSE 0)])

\* One doubling of the fraction 0.(st.fs); its integer part is the next bit.
FracStep(st) ==
    IF st.fs = <<>> THEN st
    ELSE LET d == DoubleFraction(st.fs)
         IN  [fs |-> IF d[Len(d)] = 0 THEN SubSeq(d, 1, Len(d) - 1) ELSE d,
              bits |-> Append(st.bits, IF st.fs[1] >= 5 THEN 1 ELSE 0)]

RECURSIVE FracLoop(_, _)
\* n times FracStep.
FracLoop(n, st) ==
    IF n <= 0 THEN st
    ELSE IF n = 1 THEN FracStep(st)
    ELSE LET left == FracLoop(n \div 2, st)
         IN  IF Len(left.bits) >= 0 THEN FracLoop(n - n \div 2, left) ELSE left

\* The double nearest to sign * 0.D * 10^dexp, for digits D that neither
\* start nor end with 0.  The integer part is turned into bits by halving,
\* the fraction by doubling, as far as the rounding looks: to the bit below
\* the lowest bit a double can hold, and 54 bits below the first 1 (which a
\* fraction of n digits has among its first 4 * n bits).
DecimalToDouble(sign, D, dexp) ==
    LET I == IF dexp <= 0 THEN <<>>
             ELSE IF dexp >= Len(D) THEN D \o Zeros(dexp - Len(D))
             ELSE SubSeq(D, 1, dexp)
        F == IF dexp <= 0 THEN Zeros(0 - dexp) \o D
             ELSE IF dexp >= Len(D) THEN <<>>
             ELSE SubSeq(D, dexp + 1, Len(D))
        want == 4 * Len(F) + SignificandBits + 1
        n == IF want > 1 - MinBinaryExponent THEN 1 - MinBinaryExponent ELSE want
        fr == FracLoop(n, [fs |-> F, bits |-> <<>>])
    IN  RoundToDouble(sign, IntegerBits(I), fr.bits, fr.fs # <<>>)

\* The bits of a numeral in radix 2, 8 or 16 (bitsPerDigit 1, 3 or 4).
RadixBits(s, bitsPerDigit) ==
    Tuple([i \in 1..(Len(s) * bitsPerDigit) |->
              LET d == DigitVal(s[(i - 1) \div bitsPerDigit + 1])
                  k == bitsPerDigit - 1 - ((i - 1) % bitsPerDigit)
              IN  (d \div (2 ^ k)) % 2])

\* StrNumericLiteral in radix 2, 8 or 16: NaN when s is no numeral.
NonDecimal(s, digits, bitsPerDigit) ==
    IF AllIn(s, digits)
    THEN RoundToDouble(1, DropLeadingZeros(RadixBits(s, bitsPerDigit)), <<>>, FALSE)
    ELSE NaN

RECURSIVE RadixVal(_, _)
\* The value of a sequence of digits in the given radix.
RadixVal(ds, radix) ==
    IF ds = <<>> THEN 0
    ELSE RadixVal(SubSeq(ds, 1, Len(ds) - 1), radix) * radix + ds[Len(ds)]

\* A decimal literal at or above 10^MaxDecimalExponent is Infinity, one
\* below 10^MinDecimalExponent is 0: the largest double is below 1.8 * 10^308
\* and half the smallest above 2.4 * 10^-324.
MaxDecimalExponent == 309
MinDecimalExponent == -324

\* An exponent of more than MaxExponentDigits digits counts as
\* ExponentCap: no string is long enough for its digits to make up for it.
MaxExponentDigits == 9
ExponentCap == 1000000000

\* [+-]? DecimalDigits, the body of an ExponentPart
IsSignedInteger(s) ==
    \/ AllIn(s, Digits)
    \/ Len(s) > 1 /\ s[1] \in {"+", "-"} /\ AllIn(Tail(s), Digits)

SignedIntegerVal(s) ==
    LET ds == DropLeadingZeros(DigitVals(IF s[1] \in {"+", "-"} THEN Tail(s) ELSE s))
        abs == IF Len(ds) > MaxExponentDigits THEN ExponentCap ELSE RadixVal(ds, 10)
    IN  IF s[1] = "-" THEN 0 - abs ELSE abs

\* StrUnsignedDecimalLiteral other than Infinity: digits with an optional
\* fraction and an optional exponent.  NaN when s is no such literal.
UnsignedDecimal(s, sign) ==
    LET hasExp == \E i \in 1..Len(s) : s[i] \in {"e", "E"}
        ePos == IF hasExp
                THEN CHOOSE i \in 1..Len(s) :
                         s[i] \in {"e", "E"} /\ \A j \in 1..(i - 1) : s[j] \notin {"e", "E"}
                ELSE Len(s) + 1
        mant == SubSeq(s, 1, ePos - 1)
        expo == SubSeq(s, ePos + 1, Len(s))
        hasDot == Includes(mant, ".")
        dPos == IF hasDot THEN IndexOf(mant, ".") + 1 ELSE Len(mant) + 1
        ip == SubSeq(mant, 1, dPos - 1)
        fp == SubSeq(mant, dPos + 1, Len(mant))
        okMant == /\ ip = <<>> \/ AllIn(ip, Digits)
                  /\ fp = <<>> \/ AllIn(fp, Digits)
                  /\ ip # <<>> \/ fp # <<>>
        okExp == ~hasExp \/ IsSignedInteger(expo)
        ds == DigitVals(ip \o fp)
        D == DropTrailingZeros(DropLeadingZeros(ds))
        dexp == Len(ip) - LeadingZeros(ds) + (IF hasExp THEN SignedIntegerVal(expo) ELSE 0)
    IN  IF ~(okMant /\ okExp) THEN NaN
        ELSE IF D = <<>> THEN Zero(sign)
        ELSE IF dexp > MaxDecimalExponent THEN Infinity(sign)
        ELSE IF dexp < MinDecimalExponent + 1 THEN Zero(sign)
        ELSE DecimalToDouble(sign, D, dexp)

\* Number(val) for a string val.
NumberOf(val) ==
    LET s == Trim(val)
        body == IF s # <<>> /\ s[1] \in {"+", "-"} THEN Tail(s) ELSE s
        sign == IF s # <<>> /\ s[1] = "-" THEN -1 ELSE 1
        inf == <<"I", "n", "f", "i", "n", "i", "t", "y">>
        prefixed == Len(s) > 2 /\ s[1] = "0"
        numeral == SubSeq(s, 3, Len(s))
    IN  IF s = <<>> THEN Zero(1)
        ELSE IF body = inf THEN Infinity(sign)
        ELSE IF prefixed /\ s[2] \in {"x", "X"} THEN NonDecimal(numeral, HexDigits, 4)
        ELSE IF prefixed /\ s[2] \in {"o", "O"} THEN NonDecimal(numeral, OctalDigits, 3)
        ELSE IF prefixed /\ s[2] \in {"b", "B"} THEN NonDecimal(numeral, BinaryDigits, 1)
        ELSE UnsignedDecimal(body, sign)

\* isNaN(n) for a number n
IsNaN(n) == n.kind = "nan"

-----------------------------------------------------------------------------
(* Objects: property lookup, assignment and key order *)

RECURSIVE InheritedKind(_, _)
\* What the prototype chain starting at p holds under the name k: "data" (a
\* writable data property), "accessor" (Object.prototype's __proto__) or
\* "none".  An array met on the chain stands for its own chain's end,
\* Object.prototype.
InheritedKind(p, k) ==
    CASE p.t = "null" -> "none"
      [] p.t = "obj" -> IF k \in OwnKeys(p) THEN "data" ELSE InheritedKind(p.proto, k)
      [] OTHER -> IF k = ProtoKey THEN "accessor"
                  ELSE IF k \in ObjectPrototypeKeys THEN "data" ELSE "none"

\* The [[Prototype]] of an object value.
ProtoOf(o) == IF o.t = "obj" THEN o.proto ELSE IF o.t = "objproto" THEN Null ELSE ObjectPrototype

\* key in o
HasProperty(o, k) ==
    \/ k \in OwnKeys(o)
    \/ o.t = "objproto" /\ k \in ObjectPrototypeKeys
    \/ InheritedKind(ProtoOf(o), k) # "none"

RECURSIVE InheritedValue(_, _, _)
\* The value the chain starting at p gives the receiver o under the name k.
InheritedValue(p, k, o) ==
    CASE p.t = "null" -> Undefined
      [] p.t = "obj" -> IF k \in OwnKeys(p) THEN OwnValue(p, k) ELSE InheritedValue(p.proto, k, o)
      [] OTHER -> IF k = ProtoKey THEN ProtoOf(o)
                  ELSE IF k \in ObjectPrototypeKeys THEN [t |-> "function", name |-> k]
                  ELSE Undefined

\* o[k]
GetProperty(o, k) ==
    IF k \in OwnKeys(o) THEN OwnValue(o, k)
    ELSE IF o.t = "objproto"
    THEN (IF k = ProtoKey THEN Null
          ELSE IF k \in ObjectPrototypeKeys THEN [t |-> "function", name |-> k]
          ELSE Undefined)
    ELSE InheritedValue(ProtoOf(o), k, o)

\* target[k] = v on a plain object: an own property is overwritten in place;
\* the inherited __proto__ setter replaces the prototype when v is an object
\* or null and does nothing otherwise; anything else adds an own property.
SetProperty(target, k, v) ==
    IF k \in OwnKeys(target)
    THEN ObjWithProto([i \in 1..Len(target.ents) |->
                          IF target.ents[i].k = k THEN [k |-> k, v |-> v]
                          ELSE target.ents[i]], target.proto)
    ELSE IF InheritedKind(target.proto, k) = "accessor"
    THEN (IF TypeofObject(v) THEN ObjWithProto(target.ents, v) ELSE target)
    ELSE ObjWithProto(Append(target.ents, [k |-> k, v |-> v]), target.proto)

RECURSIVE AssignFrom(_, _, _)
AssignFrom(target, ents, i) ==
    IF i > Len(ents) THEN target
    ELSE AssignFrom(SetProperty(target, ents[i].k, ents[i].v), ents, i + 1)

\* Object.assign(target, source): every own enumerable property of source is
\* set on target; a null source gives nothing.
ObjectAssign(target, source) == AssignFrom(target, Ents(source), 1)

\* The largest array index, 2^32 - 2, as a digit string.
MaxArrayIndex == <<"4", "2", "9", "4", "9", "6", "7", "2", "9", "4">>

RECURSIVE DigitsLeq(_, _)
\* a <= b for two digit strings of one length
DigitsLeq(a, b) ==
    IF a = <<>> THEN TRUE
    ELSE IF DigitVal(Head(a)) # DigitVal(Head(b)) THEN DigitVal(Head(a)) < DigitVal(Head(b))
    ELSE DigitsLeq(Tail(a), Tail(b))

\* a <= b for two canonical digit strings
IndexLeq(a, b) == Len(a) < Len(b) \/ (Len(a) = Len(b) /\ DigitsLeq(a, b))

\* k is an array index: a canonical decimal numeral below 2^32 - 1.
IsArrayIndex(k) ==
    /\ AllIn(k, Digits)
    /\ Len(k) = 1 \/ k[1] # "0"
    /\ IndexLeq(k, MaxArrayIndex)

RECURSIVE SortIndices(_)
\* The array-index keys of the set S in ascending numeric order.
SortIndices(S) ==
    IF S = {} THEN <<>>
    ELSE LET least == CHOOSE k \in S : \A j \in S : IndexLeq(k, j)
         IN  <<least>> \o SortIndices(S \ {least})

RECURSIVE NamedKeys(_, _)
\* The keys of ents that are no array index, in insertion order.
NamedKeys(ents, i) ==
    IF i > Len(ents) THEN <<>>
    ELSE (IF IsArrayIndex(ents[i].k) THEN <<>> ELSE <<ents[i].k>>) \o NamedKeys(ents, i + 1)

\* Object.keys(o): array indices ascending, then the other names in insertion
\* order.
ObjectKeys(o) ==
    SortIndices({k \in OwnKeys(o) : IsArrayIndex(k)}) \o NamedKeys(Ents(o), 1)

-----------------------------------------------------------------------------
(* parsePojoString *)

WordChars ==
    Digits \cup {"_"} \cup
    {"a", "b", "c", "d", "e", "f", "g", "h", "i", "j", "k", "l", "m",
     "n", "o", "p", "q", "r", "s", "t", "u", "v", "w", "x", "y", "z",
     "A", "B", "C", "D", "E", "F", "G", "H", "I", "J", "K", "L", "M",
     "N", "O", "P", "Q", "R", "S", "T", "U", "V", "W", "X", "Y", "Z"}

NullToken == <<"<", "n", "u", "l", "l", ">">>

\* A global replace at position p: out is the text produced so far, next the
\* position matching resumes at (the regular expression's lastIndex).  A
\* position before next lies inside the previous match.
ReplaceStart == [out |-> <<>>, next |-> 1]

\* str.replace(/<null>/g, 'null') at position p
NullStep(s, st, p) ==
    IF p < st.next THEN st
    ELSE IF p + 5 <= Len(s) /\ SubSeq(s, p, p + 5) = NullToken
    THEN [out |-> st.out \o <<"n", "u", "l", "l">>, next |-> p + 6]
    ELSE [out |-> Append(st.out, s[p]), next |-> p + 1]

RECURSIVE NullLoop(_, _, _, _)
\* NullStep on the positions lo..hi, left to right.
NullLoop(s, lo, hi, st) ==
    IF lo > hi THEN st
    ELSE IF lo = hi THEN NullStep(s, st, lo)
    ELSE LET left == NullLoop(s, lo, (lo + hi) \div 2, st)
         IN  IF left.next \in Int
             THEN NullLoop(s, (lo + hi) \div 2 + 1, hi, left)
             ELSE left

ReplaceNull(s) == NullLoop(s, 1, Len(s), ReplaceStart).out

RECURSIVE RunEnd(_, _)
\* The first position from p on that holds no \w character.
RunEnd(s, p) ==
    IF p <= Len(s) /\ s[p] \in WordChars THEN RunEnd(s, p + 1) ELSE p

\* The position of the '[' that ends a match of /(\w+)=\w+\[/ starting at
\* p, or 0 when there is no match at p.
ClassMatchEnd(s, p) ==
    LET w1 == RunEnd(s, p)
        w2 == RunEnd(s, w1 + 1)
    IN  IF /\ w1 > p
           /\ w1 <= Len(s) /\ s[w1] = "="
           /\ w2 > w1 + 1
           /\ w2 <= Len(s) /\ s[w2] = "["
        THEN w2 ELSE 0

\* str.replace(/(\w+)=\w+\[/g, '$1=[') at position p
ClassStep(s, st, p) ==
    IF p < st.next THEN st
    ELSE IF ClassMatchEnd(s, p) > 0
    THEN [out |-> st.out \o SubSeq(s, p, RunEnd(s, p) - 1) \o <<"=", "[">>,
          next |-> ClassMatchEnd(s, p) + 1]
    ELSE [out |-> Append(st.out, s[p]), next |-> p + 1]

RECURSIVE ClassLoop(_, _, _, _)
\* ClassStep on the positions lo..hi, left to right.
ClassLoop(s, lo, hi, st) ==
    IF lo > hi THEN st
    ELSE IF lo = hi THEN ClassStep(s, st, lo)
    ELSE LET left == ClassLoop(s, lo, (lo + hi) \div 2, st)
         IN  IF left.next \in Int
             THEN ClassLoop(s, (lo + hi) \div 2 + 1, hi, left)
             ELSE left

StripClassNames(s) == ClassLoop(s, 1, Len(s), ReplaceStart).out

\* A faulty variant of normalize that leaves <null> as it is.
normalizeClassNamesOnly(str) == StripClassNames(str)

normalize(str) == StripClassNames(ReplaceNull(str))

\* Every call below carries `at`, the place of the call in the run: the
\* number of the parsePojoString call, followed by the index of the token
\* at each level under it.  The array a parseList call allocates has its
\* place for identity, so that no two calls share an array.
RECURSIVE parseValue(_, _)
RECURSIVE parseList(_, _)
RECURSIVE parseItem(_, _)
RECURSIVE parseObject(_, _)
RECURSIVE parseElems(_, _, _)
RECURSIVE parseEntries(_, _, _, _)

parseValue(val, at) ==
    IF val = <<"n", "u", "l", "l">> THEN Null
    ELSE IF val = <<"t", "r", "u", "e">> THEN Bool(TRUE)
    ELSE IF val = <<"f", "a", "l", "s", "e">> THEN Bool(FALSE)
    ELSE IF ~IsNaN(NumberOf(val)) THEN NumberOf(val)
    ELSE IF StartsWith(val, "[") /\ EndsWith(val, "]")
    THEN parseList(Slice(val, 1, -1), at)
    ELSE Str(val)

\* toks.map(parseItem) from index i on
parseElems(toks, i, at) ==
    IF i > Len(toks) THEN <<>>
    ELSE <<parseItem(toks[i], Append(at, i))>> \o parseElems(toks, i + 1, at)

parseList(str, at) == List(at, parseElems(tokenize(str), 1, at))

\* A faulty variant of parseItem that leaves a key=[...] token to parseValue, so
\* that its bracketed value becomes a list.
parseItemListFirst(item, at) ==
    IF Includes(item, "=")
    THEN Obj(<<[k |-> BeforeFirstEq(item), v |-> parseValue(AfterFirstEq(item), at)]>>)
    ELSE parseValue(item, at)

parseItem(item, at) ==
    IF Includes(item, "=") /\ Includes(item, "[") /\ EndsWith(item, "]")
    THEN LET idx == IndexOf(item, "[")
             prefix == Slice(item, 0, idx)
             inner == Slice(item, idx + 1, -1)
         IN  Obj(<<[k |-> BeforeFirstEq(prefix), v |-> parseObject(inner, at)]>>)
    ELSE IF Includes(item, "=")
    THEN Obj(<<[k |-> BeforeFirstEq(item), v |-> parseValue(AfterFirstEq(item), at)]>>)
    ELSE parseValue(item, at)

\* The body of parseObject's loop for one token.
MergeParsed(result, parsed) ==
    IF TypeofObject(parsed) /\ ~IsArray(parsed)
    THEN ObjectAssign(result, parsed)
    ELSE result

\* parseObject's loop from token i on
parseEntries(toks, i, result, at) ==
    IF i > Len(toks) THEN result
    ELSE parseEntries(toks, i + 1,
                      MergeParsed(result, parseItem(toks[i], Append(at, i))), at)

parseObject(str, at) == parseEntries(tokenize(str), 1, Obj(<<>>), at)

parsePojoString(input, at) ==
    LET bracketStart == IndexOf(input, "[")
        content == normalize(Slice(input, bracketStart + 1, -1))
    IN  parseObject(content, at)

-----------------------------------------------------------------------------
(* diffObjects *)

\* val1 === val2.  Two plain objects are never compared: diffObjects
\* recurses into them instead.
StrictEquals(a, b) ==
    IF a.t # b.t THEN FALSE
    ELSE CASE a.t = "num" -> \/ IsZero(a) /\ IsZero(b)
                             \/ a.kind = b.kind /\ a.kind # "nan" /\ a = b
           [] a.t = "list" -> a.ref = b.ref
           [] a.t = "bool" -> a.b = b.b
           [] a.t = "str" -> a.s = b.s
           [] a.t = "function" -> a.name = b.name
           [] a.t \in {"null", "undefined", "objproto"} -> TRUE

\* new Set([...ks1, ...ks2]) in iteration order
RECURSIVE Dedup(_, _)
Dedup(seen, ks) ==
    IF ks = <<>> THEN seen
    ELSE IF \E i \in 1..Len(seen) : seen[i] = Head(ks) THEN Dedup(seen, Tail(ks))
    ELSE Dedup(Append(seen, Head(ks)), Tail(ks))

KeyUnion(ks1, ks2) == Dedup(<<>>, ks1 \o ks2)

\* path ? `${path}.${key}` : key
FullPath(path, key) == IF path # <<>> THEN path \o <<".">> \o key ELSE key

MissingInObj1(path, v) == [type |-> "missing-in-obj1", path |-> path, valueInObj2 |-> v]
MissingInObj2(path, v) == [type |-> "missing-in-obj2", path |-> path, valueInObj1 |-> v]
ValueMismatch(path, v1, v2) ==
    [type |-> "value-mismatch", path |-> path, valueInObj1 |-> v1, valueInObj2 |-> v2]

\* A faulty variant of BothPlainObjects that tests the first value alone.
FirstPlainObject(val1, val2) ==
    Truthy(val1) /\ TypeofObject(val1) /\ ~IsArray(val1)

\* The guard of the recursive branch.
BothPlainObjects(val1, val2) ==
    /\ Truthy(val1)
    /\ Truthy(val2)
    /\ TypeofObject(val1)
    /\ TypeofObject(val2)
    /\ ~IsArray(val1)
    /\ ~IsArray(val2)

RECURSIVE diffObjects(_, _, _)
RECURSIVE diffKeys(_, _, _, _, _)

\* What one iteration of the loop pushes for key.
diffKey(o1, o2, path, key) ==
    LET fullPath == FullPath(path, key)
        val1 == GetProperty(o1, key)
        val2 == GetProperty(o2, key)
    IN  IF ~HasProperty(o1, key) THEN <<MissingInObj1(fullPath, val2)>>
        ELSE IF ~HasProperty(o2, key) THEN <<MissingInObj2(fullPath, val1)>>
        ELSE IF BothPlainObjects(val1, val2) THEN diffObjects(val1, val2, fullPath)
        ELSE IF ~StrictEquals(val1, val2) THEN <<ValueMismatch(fullPath, val1, val2)>>
        ELSE <<>>

\* The loop over keys from index i on.
diffKeys(o1, o2, path, keys, i) ==
    IF i > Len(keys) THEN <<>>
    ELSE diffKey(o1, o2, path, keys[i]) \o diffKeys(o1, o2, path, keys, i + 1)

diffObjects(o1, o2, path) ==
    diffKeys(o1, o2, path, KeyUnion(ObjectKeys(o1), ObjectKeys(o2)), 1)

-----------------------------------------------------------------------------
(* Inputs *)

\* Longest scope text handed to tokenize, character by character.
MaxScopeLen == 4

\* Most tokens in one generated scope.
MaxTokens == 2

\* Most keys in one generated tree.
MaxEntries == 2

TokAlphabet == {"a", ",", "[", "]", " "}

ExampleScope ==
    <<"a", "=", "1", ",", " ", "b", "=", "[", "x", "=", "2", ",", " ", "y",
      "=", "3", "]", ",", " ", "c", "=", "4">>

TokInputs == SeqsUpTo(TokAlphabet, MaxScopeLen) \cup {ExampleScope}

PersonOne ==
    <<"P", "e", "r", "s", "o", "n", "[", "n", "a", "m", "e", "=", "A", "l",
      "i", "c", "e", ",", " ", "a", "g", "e", "=", "3", "0", ",", " ", "a",
      "d", "d", "r", "e", "s", "s", "=", "A", "d", "d", "r", "e", "s", "s",
      "[", "c", "i", "t", "y", "=", "N", "Y", "C", ",", " ", "z", "i", "p",
      "=", "<", "n", "u", "l", "l", ">", "]", "]">>

PersonTwo ==
    <<"P", "e", "r", "s", "o", "n", "[", "n", "a", "m", "e", "=", "A", "l",
      "i", "c", "e", ",", " ", "a", "g", "e", "=", "3", "1", ",", " ", "a",
      "d", "d", "r", "e", "s", "s", "=", "A", "d", "d", "r", "e", "s", "s",
      "[", "c", "i", "t", "y", "=", "N", "Y", "C", ",", " ", "z", "i", "p",
      "=", "<", "n", "u", "l", "l", ">", "]", ",", " ", "e", "m", "a", "i",
      "l", "=", "a", "@", "x", ".", "c", "o", "m", "]">>

TagsInput ==
    <<"F", "o", "o", "[", "t", "a", "g", "s", "=", "[", "a", ",", " ", "b",
      ",", " ", "c", "]", "]">>

AddrInput ==
    <<"F", "o", "o", "[", "a", "d", "d", "r", "=", "A", "d", "d", "r", "[",
      "c", "i", "t", "y", "=", "N", "Y", "C", ",", " ", "z", "i", "p", "=",
      "1", "0", "0", "0", "1", "]", "]">>

LabelInput ==
    <<"L", "a", "b", "e", "l", "[", "]">>

NoBracketInput ==
    <<"n", "a", "m", "e", "=", "A", "l", "i", "c", "e", ",", " ", "a", "g",
      "e", "=", "3", "0">>

\* Tokens the generated scopes are made of.
ScopeTokens ==
    { <<"a", "=", "1">>,
      <<"a", "=", "[", "1", ",", " ", "b", "]">>,
      <<"a", "=", "A", "[", "b", "=", "1", "]">>,
      <<"b", "=", "<", "n", "u", "l", "l", ">">>,
      <<"b", "=", "[", "a", "=", "1", "]">>,
      <<"a", "=", "x", "=", "y">>,
      <<"a", "=">>,
      <<"=", "2">>,
      <<"1", "=", "t", "r", "u", "e">>,
      <<"x">>,
      <<"[", "1", "]">>,
      <<"_", "_", "p", "r", "o", "t", "o", "_", "_", "=", "1">>,
      <<"", "b", "=", ".", "5", "">> }

\* The scopes of at most MaxTokens tokens, joined by ", ".
Scopes == {Join(ts, <<",", " ">>) : ts \in SeqsUpTo(ScopeTokens, MaxTokens)}

Examples == {PersonOne, PersonTwo, TagsInput, AddrInput, LabelInput, NoBracketInput}

\* Texts for the first parse: each scope bracketed under a label, each scope
\* without any bracket as it is, and the examples.
Inputs ==
    {<<"F", "[">> \o sc \o <<"]">> : sc \in Scopes}
        \cup {sc \in Scopes : ~Includes(sc, "[")}
        \cup Examples

\* Texts for the second parse.
SecondInputs == {PersonTwo, LabelInput, <<"F", "[", "a", "=", "2", "]">>}

KeyA == <<"a">>
KeyB == <<"b">>
KeyDotted == <<"a", ".", "b">>
KeyToString == <<"t", "o", "S", "t", "r", "i", "n", "g">>

One == Finite(1, <<1>>, 0)

\* Two arrays of the caller's with the same elements.
ListOne == List(<<0, 1>>, <<One>>)
ListTwo == List(<<0, 2>>, <<One>>)

Leaves == {Null, One, NaN, ListOne, ListTwo}

InnerObjects == {Obj(<<>>), Obj(<<[k |-> KeyB, v |-> One]>>)}

TreeValues == Leaves \cup InnerObjects

\* The keys of generated trees, in the order they are inserted.
TopKeys == <<KeyA, KeyDotted, KeyToString>>

RECURSIVE Ascending(_)
\* The numbers of S in ascending order.
Ascending(S) ==
    IF S = {} THEN <<>>
    ELSE LET least == CHOOSE i \in S : \A j \in S : i <= j
         IN  <<least>> \o Ascending(S \ {least})

\* The trees of at most MaxEntries keys.
Trees ==
    UNION {
        {Obj([n \in 1..Len(Ascending(S)) |->
                 [k |-> TopKeys[Ascending(S)[n]], v |-> f[Ascending(S)[n]]]]) :
            f \in [S -> TreeValues]} :
        S \in {T \in SUBSET (1..Len(TopKeys)) : Cardinality(T) <= MaxEntries}}

-----------------------------------------------------------------------------
(* tokenize, one character at a time *)

TokenizeInit ==
    /\ pc = "scan"
    /\ scope \in TokInputs
    /\ pos = 0
    /\ buf = TokStart.buf
    /\ depth = TokStart.depth
    /\ tokens = TokStart.tokens
    /\ input1 = None /\ input2 = None /\ obj1 = None /\ obj2 = None /\ diffs = None

\* One iteration of the loop.
TokenizeChar ==
    /\ pc = "scan"
    /\ pos < Len(scope)
    /\ LET st == TokStep([tokens |-> tokens, buf |-> buf, depth |-> depth], scope[pos + 1])
       IN  /\ tokens' = st.tokens
           /\ buf' = st.buf
           /\ depth' = st.depth
    /\ pos' = pos + 1
    /\ UNCHANGED <<pc, scope, input1, input2, obj1, obj2, diffs>>

\* The end of the loop and the final push.
TokenizeEnd ==
    /\ pc = "scan"
    /\ pos = Len(scope)
    /\ tokens' = TokEnd([tokens |-> tokens, buf |-> buf, depth |-> depth])
    /\ pc' = "done"
    /\ UNCHANGED <<scope, pos, buf, depth, input1, input2, obj1, obj2, diffs>>

TokenizeNext == TokenizeChar \/ TokenizeEnd

SpecTokenize == TokenizeInit /\ [][TokenizeNext]_vars

-----------------------------------------------------------------------------
(* Parse two texts, then diff the results *)

ParseInit ==
    /\ pc = "start"
    /\ input1 \in Inputs
    /\ input2 \in SecondInputs
    /\ obj1 = None /\ obj2 = None /\ diffs = None
    /\ scope = None /\ pos = 0 /\ buf = <<>> /\ depth = 0 /\ tokens = <<>>

ParseFirst ==
    /\ pc = "start"
    /\ obj1' = parsePojoString(input1, <<1>>)
    /\ pc' = "parsed"
    /\ UNCHANGED <<scope, pos, buf, depth, tokens, input1, input2, obj2, diffs>>

ParseSecond ==
    /\ pc = "parsed"
    /\ obj2' = parsePojoString(input2, <<2>>)
    /\ pc' = "ready"
    /\ UNCHANGED <<scope, pos, buf, depth, tokens, input1, input2, obj1, diffs>>

Diff ==
    /\ pc = "ready"
    /\ diffs' = diffObjects(obj1, obj2, <<>>)
    /\ pc' = "done"
    /\ UNCHANGED <<scope, pos, buf, depth, tokens, input1, input2, obj1, obj2>>

ParseNext == ParseFirst \/ ParseSecond \/ Diff

SpecParse == ParseInit /\ [][ParseNext]_vars

-----------------------------------------------------------------------------
(* Diff two trees of any producer *)

DiffInit ==
    /\ pc = "ready"
    /\ obj1 \in Trees
    /\ obj2 \in Trees
    /\ diffs = None
    /\ input1 = None /\ input2 = None
    /\ scope = None /\ pos = 0 /\ buf = <<>> /\ depth = 0 /\ tokens = <<>>

DiffNext == Diff

SpecDiff == DiffInit /\ [][DiffNext]_vars

-----------------------------------------------------------------------------
(* The three together *)

Init == TokenizeInit \/ ParseInit \/ DiffInit

Next == TokenizeChar \/ TokenizeEnd \/ ParseFirst \/ ParseSecond \/ Diff

Spec == Init /\ [][Next]_vars

-----------------------------------------------------------------------------
(* Properties of tokenize *)

\* The depth counter after the first i characters of s.
DepthAt(s, i) ==
    Cardinality({j \in 1..i : s[j] = "["}) - Cardinality({j \in 1..i : s[j] = "]"})

\* The commas among the first n characters of s that are met at depth 0.
SplitPositions(s, n) == {i \in 1..n : s[i] = "," /\ DepthAt(s, i) = 0}

\* The last of them, 0 when there is none.
LastSplit(s, n) ==
    IF SplitPositions(s, n) = {} THEN 0
    ELSE CHOOSE i \in SplitPositions(s, n) : \A j \in SplitPositions(s, n) : j <= i

\* The text before the k-th split position, back to the split before it.
Piece(s, n, k) ==
    LET at == Ascending(SplitPositions(s, n))
    IN  SubSeq(s, (IF k = 1 THEN 0 ELSE at[k - 1]) + 1, at[k] - 1)

\* The depth never drops below 0 and ends at 0.
BracketBalanced(s) ==
    /\ \A i \in 1..Len(s) : DepthAt(s, i) >= 0
    /\ DepthAt(s, Len(s)) = 0

ExampleTokens ==
    << <<"a", "=", "1">>,
       <<"b", "=", "[", "x", "=", "2", ",", " ", "y", "=", "3", "]">>,
       <<"c", "=", "4">> >>

\* C7: at every point of the scan the depth counter is the number of '[' met
\* less the number of ']' met; a token has been ended at exactly the commas
\* met at depth 0, each token being the trimmed text between two such commas;
\* every other character met since, the commas at other depths among them, is
\* in buf; and when tokenize returns, the tokens of a bracket-balanced scope
\* are bracket-balanced and the scope a=1, b=[x=2, y=3], c=4 has given the
\* three tokens a=1, b=[x=2, y=3], c=4.
TokenizeSplitsAtDepthZero ==
    /\ depth = DepthAt(scope, pos)
    /\ buf = SubSeq(scope, LastSplit(scope, pos) + 1, pos)
    /\ pc = "scan" => Len(tokens) = Cardinality(SplitPositions(scope, pos))
    /\ \A k \in 1..Cardinality(SplitPositions(scope, pos)) :
           tokens[k] = Trim(Piece(scope, pos, k))
    /\ pc = "done" =>
           /\ Len(tokens) = Cardinality(SplitPositions(scope, pos))
                                + (IF buf # <<>> THEN 1 ELSE 0)
           /\ buf # <<>> => tokens[Len(tokens)] = Trim(buf)
           /\ BracketBalanced(scope) =>
                  \A k \in 1..Len(tokens) : BracketBalanced(tokens[k])
           /\ scope = ExampleScope => tokens = ExampleTokens

\* tokenize has returned for a balanced scope with a comma inside brackets
\* and a comma outside them.
TokenizeNestedCommaDone ==
    /\ pc = "done"
    /\ BracketBalanced(scope)
    /\ \E i \in 1..Len(scope) : scope[i] = "," /\ DepthAt(scope, i) > 0
    /\ \E i \in 1..Len(scope) : scope[i] = "," /\ DepthAt(scope, i) = 0
    /\ Len(tokens) >= 2

-----------------------------------------------------------------------------
(* Properties of parsePojoString *)

\* The scope text parsePojoString hands to parseObject.
ScopeOf(input) == normalize(Slice(input, IndexOf(input, "[") + 1, -1))

RECURSIVE HasList(_)
\* v is a list or holds one under some chain of keys.
HasList(v) ==
    \/ v.t = "list"
    \/ v.t = "obj" /\ \E i \in 1..Len(v.ents) : HasList(v.ents[i].v)

\* A token of the form key=[v1, ..., vn] whose vi are unkeyed scalars.
IsScalarListToken(tok) ==
    /\ Includes(tok, "=")
    /\ LET val == AfterFirstEq(tok)
       IN  /\ StartsWith(val, "[") /\ EndsWith(val, "]")
           /\ ~Includes(Slice(val, 1, -1), "=")
           /\ ~Includes(Slice(val, 1, -1), "[")
           /\ ~Includes(Slice(val, 1, -1), "]")

\* The values v1..vn of such a token, parsed in order.
ScalarListElems(tok) ==
    LET parts == tokenize(Slice(AfterFirstEq(tok), 1, -1))
    IN  [i \in 1..Len(parts) |-> parseValue(parts[i], <<1, i>>)]

TagsKey == <<"t", "a", "g", "s">>

\* C1: once a text is parsed, every key=[v1, ..., vn] token of its scope
\* that is the last with its key has its key mapped to the list of the
\* parsed v1..vn; Foo[tags=[a, b, c]] gives tags the list of a, b, c.
ScalarListParsesToList ==
    pc # "start" =>
        /\ LET toks == tokenize(ScopeOf(input1))
           IN  \A i \in 1..Len(toks) :
                   (/\ IsScalarListToken(toks[i])
                    /\ \A j \in (i + 1)..Len(toks) :
                           BeforeFirstEq(toks[j]) # BeforeFirstEq(toks[i]))
                   => /\ BeforeFirstEq(toks[i]) \in OwnKeys(obj1)
                      /\ OwnValue(obj1, BeforeFirstEq(toks[i])).t = "list"
                      /\ OwnValue(obj1, BeforeFirstEq(toks[i])).elems
                             = ScalarListElems(toks[i])
        /\ input1 = TagsInput =>
               /\ TagsKey \in OwnKeys(obj1)
               /\ OwnValue(obj1, TagsKey).t = "list"
               /\ OwnValue(obj1, TagsKey).elems
                      = <<Str(<<"a">>), Str(<<"b">>), Str(<<"c">>)>>

\* C2: a text without any '[' is refused: its parse gives no object.
NoBracketIsRefused ==
    (pc # "start" /\ ~Includes(input1, "[")) => obj1.t # "obj"

AgeKey == <<"a", "g", "e">>
EmailKey == <<"e", "m", "a", "i", "l">>
AddressKey == <<"a", "d", "d", "r", "e", "s", "s">>

ParsedAddress ==
    Obj(<< [k |-> <<"c", "i", "t", "y">>, v |-> Str(<<"N", "Y", "C">>)],
           [k |-> <<"z", "i", "p">>, v |-> Null] >>)

\* C3: the two Person texts parse to trees whose address is the object
\* {city: "NYC", zip: null}, and their diff is exactly a value-mismatch at
\* age (30 against 31) and a missing-in-obj1 at email with "a@x.com".
PersonScenario ==
    (input1 = PersonOne /\ input2 = PersonTwo) =>
        /\ pc \in {"ready", "done"} =>
               /\ GetProperty(obj1, AddressKey) = ParsedAddress
               /\ GetProperty(obj2, AddressKey) = ParsedAddress
        /\ pc = "done" =>
               /\ Len(diffs) = 2
               /\ {diffs[i] : i \in 1..Len(diffs)} =
                      { ValueMismatch(AgeKey, NumberOf(<<"3", "0">>), NumberOf(<<"3", "1">>)),
                        MissingInObj1(EmailKey,
                                      Str(<<"a", "@", "x", ".", "c", "o", "m">>)) }

\* The two Person texts have been parsed and diffed.
PersonScenarioDone ==
    pc = "done" /\ input1 = PersonOne /\ input2 = PersonTwo /\ Len(diffs) = 2

\* The key the i-th token of the first text's scope, one containing '=',
\* is stored under, and the value it carries.
TokenKey(toks, i) == parseItem(toks[i], <<1, i>>).ents[1].k

TokenValue(toks, i) == parseItem(toks[i], <<1, i>>).ents[1].v

\* C9: the object parseObject returns for a scope has exactly the keys of
\* the scope's tokens that contain '=', each mapped to the value of the last
\* token with that key.
ObjectHoldsLastKeyedTokens ==
    pc # "start" =>
        LET toks == tokenize(ScopeOf(input1))
            keyed == {i \in 1..Len(toks) : Includes(toks[i], "=")}
        IN  /\ OwnKeys(obj1) = {TokenKey(toks, i) : i \in keyed}
            /\ \A i \in keyed :
                   (\A j \in keyed : j > i => TokenKey(toks, j) # TokenKey(toks, i))
                   => OwnValue(obj1, TokenKey(toks, i)) = TokenValue(toks, i)

\* C10: no tree parsePojoString returns holds a list at any depth.
NoListInParsedTree ==
    /\ pc # "start" => ~HasList(obj1)
    /\ pc \in {"ready", "done"} => ~HasList(obj2)

\* A text with a key=[v1, ..., vn] token has been parsed.
ScalarListTokenParsed ==
    /\ pc # "start"
    /\ \E i \in 1..Len(tokenize(ScopeOf(input1))) :
           IsScalarListToken(tokenize(ScopeOf(input1))[i])
    /\ OwnKeys(obj1) # {}

-----------------------------------------------------------------------------
(* Properties of diffObjects *)

RECURSIVE DeepEqual(_, _)
\* Structural equality of two values: lists by their elements, objects by
\* their keys and values, NaN unequal to itself.
DeepEqual(a, b) ==
    IF a.t # b.t THEN FALSE
    ELSE CASE a.t = "list" ->
                  /\ Len(a.elems) = Len(b.elems)
                  /\ \A i \in 1..Len(a.elems) : DeepEqual(a.elems[i], b.elems[i])
           [] a.t = "obj" ->
                  /\ OwnKeys(a) = OwnKeys(b)
                  /\ \A k \in OwnKeys(a) : DeepEqual(OwnValue(a, k), OwnValue(b, k))
           [] a.t = "num" -> \/ IsZero(a) /\ IsZero(b)
                             \/ a.kind = b.kind /\ a.kind # "nan" /\ a = b
           [] OTHER -> a = b

\* v is a plain object.
IsObject(v) == v.t = "obj"

RECURSIVE Levels(_, _, _)
\* The pairs of objects diffObjects compares, each with the chain of keys
\* that leads to it: the two trees, and the objects present under one key
\* chain in both.
Levels(o1, o2, chain) ==
    {[chain |-> chain, o1 |-> o1, o2 |-> o2]} \cup
    UNION {Levels(OwnValue(o1, k), OwnValue(o2, k), Append(chain, k)) :
              k \in {x \in OwnKeys(o1) \cap OwnKeys(o2) :
                        IsObject(OwnValue(o1, x)) /\ IsObject(OwnValue(o2, x))}}

\* The dot-joined key chain.
DotPath(chain) == Join(chain, <<".">>)

EntriesAt(ds, path) == {i \in 1..Len(ds) : ds[i].path = path}

EntrySet(ds) == {ds[i] : i \in 1..Len(ds)}

\* C4: for a key present in both trees whose values are not both objects,
\* there is a value-mismatch entry at the key's path exactly when the two
\* values are not deeply equal.
MismatchIffNotDeepEqual ==
    pc = "done" =>
        \A lv \in Levels(obj1, obj2, <<>>) :
            \A k \in OwnKeys(lv.o1) \cap OwnKeys(lv.o2) :
                ~(IsObject(OwnValue(lv.o1, k)) /\ IsObject(OwnValue(lv.o2, k)))
                => ((\E i \in EntriesAt(diffs, DotPath(Append(lv.chain, k))) :
                         diffs[i].type = "value-mismatch")
                    <=> ~DeepEqual(OwnValue(lv.o1, k), OwnValue(lv.o2, k)))

\* C5: the diff of a tree with itself is empty.
SelfDiffIsEmpty == (pc = "done" /\ obj1 = obj2) => diffs = <<>>

\* C6: the missing-in-obj1 entries of diffObjects(A, B) are, path and value,
\* the missing-in-obj2 entries of diffObjects(B, A), and the other way round;
\* the value-mismatch entries of the two have the same paths with the two
\* values swapped.
DiffIsSymmetric ==
    pc = "done" =>
        LET ab == EntrySet(diffs)
            ba == EntrySet(diffObjects(obj2, obj1, <<>>))
        IN  /\ {<<d.path, d.valueInObj2>> : d \in {x \in ab : x.type = "missing-in-obj1"}}
                 = {<<d.path, d.valueInObj1>> : d \in {x \in ba : x.type = "missing-in-obj2"}}
            /\ {<<d.path, d.valueInObj1>> : d \in {x \in ab : x.type = "missing-in-obj2"}}
                 = {<<d.path, d.valueInObj2>> : d \in {x \in ba : x.type = "missing-in-obj1"}}
            /\ {<<d.path, d.valueInObj1, d.valueInObj2>> :
                    d \in {x \in ab : x.type = "value-mismatch"}}
                 = {<<d.path, d.valueInObj2, d.valueInObj1>> :
                        d \in {x \in ba : x.type = "value-mismatch"}}

\* A diff with a missing-in-obj1, a missing-in-obj2 and a value-mismatch
\* entry has been computed.
DiffWithEveryType ==
    /\ pc = "done"
    /\ \E d \in EntrySet(diffs) : d.type = "missing-in-obj1"
    /\ \E d \in EntrySet(diffs) : d.type = "missing-in-obj2"
    /\ \E d \in EntrySet(diffs) : d.type = "value-mismatch"

\* C8: for a key present in one only of two objects diffObjects compares,
\* the diff has exactly one entry at the key's dot-joined chain, a
\* missing-in-obj1 with the second tree's value or a missing-in-obj2 with the
\* first tree's, and no entry at a path continuing it with a key of the
\* missing value.
MissingKeyGivesOneEntry ==
    pc = "done" =>
        \A lv \in Levels(obj1, obj2, <<>>) :
            \A k \in (OwnKeys(lv.o1) \cup OwnKeys(lv.o2)) \ (OwnKeys(lv.o1) \cap OwnKeys(lv.o2)) :
                LET path == DotPath(Append(lv.chain, k))
                    present == IF k \in OwnKeys(lv.o1) THEN lv.o1 ELSE lv.o2
                    expected == IF k \in OwnKeys(lv.o1)
                                THEN MissingInObj2(path, OwnValue(lv.o1, k))
                                ELSE MissingInObj1(path, OwnValue(lv.o2, k))
                IN  /\ Cardinality(EntriesAt(diffs, path)) = 1
                    /\ \A i \in EntriesAt(diffs, path) : diffs[i] = expected
                    /\ \A k2 \in OwnKeys(OwnValue(present, k)) :
                           EntriesAt(diffs, path \o <<".">> \o k2) = {}

=============================================================================
